---- MODULE Spec2Model ----
(***************************************************************************)
(* Model of custom-controls.js: the SVG icon buttons of the video.js       *)
(* plugin, their asset loader, the big overlay icon, and the handlers of   *)
(* the controls (play/pause, stop, mute/volume, settings panel and         *)
(* playback-rate stepper, picture-in-picture, fullscreen).                 *)
(*                                                                         *)
(* Each specification below takes the controls it is about and leaves the  *)
(* others idle: the controls share the asset loader and the player, and    *)
(* no field of one is read or written by the handlers of another.          *)
(*                                                                         *)
(* JavaScript is single-threaded: every action below is one run-to-        *)
(* completion task (a handler up to its first await, or the continuation   *)
(* after an await).  The host player and the platform (fetch, Fullscreen,  *)
(* Picture-in-Picture) are the environment; their outcomes are chosen      *)
(* nondeterministically.                                                   *)
(*                                                                         *)
(* Rates are integers in thousandths (1000 = 1.0x) so that the rounding    *)
(* to two decimals of line 124 is not the identity.  IEEE-754 rounding     *)
(* error of the additions is not modelled.                                 *)
(***************************************************************************)
EXTENDS Integers, Sequences, FiniteSets, Bags, TLC

VARIABLES
    currentIcon,        \* button -> this.currentIcon (NULL before the first updateIcon)
    rendered,           \* button -> content of this.el()
    loads,              \* bag of loadSVG calls suspended at `await fetch`
    httpCache,          \* the platform's HTTP cache: path -> stored response
    loadHist,           \* history: path -> results of the completed loadSVG(path) calls
    lastCall,           \* history: button -> the name its last updateIcon call was given
    ev,                 \* the task that ran last (observation only)
    cbPending,          \* promises returned by async onClick callbacks, not yet settled
    unhandledRejection, \* a promise nobody awaits has been rejected
    hostDispatchError,  \* an exception escaped handleClick into the host's dispatch
    caught,             \* message of the error caught last by a catch block
    isFullscreen,       \* player.isFullscreen()
    fsCalls,            \* bag of requestFullscreen/exitFullscreen calls in flight
    fsEvents,           \* fullscreenchange notifications emitted and not yet handled
    pipElement,         \* document.pictureInPictureElement
    pipSupport,         \* the platform's capability, fixed at load time
    pipCalls,           \* bag of pipBtn onClick runs suspended at their await
    playbackRate,       \* player.playbackRate(), in thousandths
    menu,               \* the .vjs-settings-menu element of the player
    rateHist,           \* history: the rate last set elsewhere, then the rates the row clicks set
    fallback,           \* history: button -> the failed load its text fallback stands for
    paused,             \* player.paused()
    muted,              \* player.muted()
    volume,             \* player.volume(), in hundredths
    currentTime,        \* player.currentTime(), in seconds
    events,             \* listener -> notifications emitted to it and not yet handled
    overlay             \* the player's BigPlayButton child and the content of its element

substrate == <<currentIcon, rendered, loads, httpCache>>
clickVars == <<cbPending, unhandledRejection, hostDispatchError, caught>>
fsVars    == <<isFullscreen, fsCalls, fsEvents>>
pipVars   == <<pipElement, pipSupport, pipCalls>>
rateVars  == <<playbackRate, menu, rateHist>>
playerVars == <<paused, muted, volume, currentTime, events, overlay>>
vars == <<substrate, loadHist, lastCall, fallback, ev, clickVars, fsVars, pipVars, rateVars,
          playerVars>>

----------------------------------------------------------------------------
(* Bounds *)

\* loadSVG calls that may be suspended at the same time
MaxInFlight == 2
\* platform calls / callback promises that may be pending at the same time
MaxCalls == 2
\* notifications that may be queued at the same time
MaxEvents == 2
\* consecutive clicks on the playback-speed row that are recorded
MaxSteps == 6
\* length of the media, in seconds
Duration == 1

----------------------------------------------------------------------------
(* Values *)

NULL == "<null>"

\* opts.iconBasePath of CustomControls (line 153) and of SVGIconButton (line 38)
iconBasePath == "/img/icon"

\* `${this.iconBasePath}/${iconName}.svg`
PathOf(name) == iconBasePath \o "/" \o name \o ".svg"

\* The markup published at a path (assets are immutable once published).
MarkupAt(path) == "<svg " \o path \o ">"

\* What the network can answer for a path: the asset, an empty body, a
\* non-success status, or no answer at all (fetch rejects; status 0).
NetworkAnswers(path) ==
    { [status |-> 200, body |-> MarkupAt(path)],
      [status |-> 200, body |-> ""],
      [status |-> 404, body |-> "Not Found"],
      [status |-> 0,   body |-> ""] }

\* res.ok
resOk(res) == res.status >= 200 /\ res.status <= 299

\* fetch rejected
fetchRejects(res) == res.status = 0

NoEntry == [status |-> -1, body |-> ""]

\* The request mode of line 12.
fetchCacheMode == "force-cache"

\* The stored response a fetch(path, {cache: mode}) is served from, NoEntry if
\* it goes to the network: force-cache uses any stored response, fresh or stale.
CacheLookup(mode, path) ==
    IF mode = "force-cache" /\ path \in DOMAIN httpCache THEN httpCache[path] ELSE NoEntry

\* The HTTP cache after the network answered `res` for `path` and the answer
\* was (store) or was not stored.
CacheAfter(path, res, store) ==
    IF store /\ ~fetchRejects(res)
    THEN [q \in DOMAIN httpCache \cup {path} |-> IF q = path THEN res ELSE httpCache[q]]
    ELSE httpCache

\* loadSVG with a failure remembered per path (a negative cache).
loadSVG_negativeCache(path, res) ==
    IF path \in DOMAIN loadHist /\ loadHist[path].failed THEN NULL
    ELSE IF fetchRejects(res) \/ ~resOk(res) THEN NULL ELSE res.body

\* loadSVG, from the point fetch settles with `res`: a rejection and a
\* non-success status both end in the catch block, which returns null.
loadSVG(path, res) ==
    IF fetchRejects(res) \/ ~resOk(res) THEN NULL ELSE res.body

\* `!svg`: null and the empty string are both falsy.
falsy(svg) == svg = NULL \/ svg = ""

NoHist == [failed |-> FALSE, firstOk |-> NULL]

HistOf(path) == IF path \in DOMAIN loadHist THEN loadHist[path] ELSE NoHist

\* A suspended loadSVG call: who awaits it, for which icon, and the stored
\* response the fetch is served from (NoEntry: the request is on the network).
\* `seen` is history: what the completed loads of the path had done by then.
Load(btn, name) ==
    [btn |-> btn, name |-> name, path |-> PathOf(name),
     hit |-> CacheLookup(fetchCacheMode, PathOf(name)),
     seen |-> HistOf(PathOf(name))]

Tick == 1 - ev.tick

----------------------------------------------------------------------------
(* Asset loader on its own: loadSVG called directly *)

NoButton == "<none>"

LoaderNames == {"play", "pause"}

HistAfter(path, svg) ==
    LET h == HistOf(path)
        h2 == IF svg = NULL THEN [h EXCEPT !.failed = TRUE]
              ELSE IF h.firstOk = NULL /\ svg # "" THEN [h EXCEPT !.firstOk = svg]
              ELSE h
    IN [q \in DOMAIN loadHist \cup {path} |-> IF q = path THEN h2 ELSE loadHist[q]]

\* loadSVG(path) up to `await fetch(path, { cache: 'force-cache' })`
loadSVG_call(name) ==
    /\ BagCardinality(loads) < MaxInFlight
    /\ loads' = loads (+) SetToBag({Load(NoButton, name)})
    /\ ev' = [op |-> "loadCall", tick |-> Tick, path |-> PathOf(name)]
    /\ UNCHANGED <<currentIcon, rendered, httpCache, loadHist, lastCall, fallback>>
    /\ UNCHANGED <<clickVars, fsVars, pipVars, rateVars, playerVars>>

\* loadSVG(path) from the point the fetch settles to its return
loadSVG_return ==
    \E l \in BagToSet(loads) :
      /\ l.btn = NoButton
      /\ \E res \in (IF l.hit = NoEntry THEN NetworkAnswers(l.path) ELSE {l.hit}),
            store \in BOOLEAN :
           /\ (l.hit # NoEntry \/ fetchRejects(res)) => ~store
           /\ LET svg == loadSVG(l.path, res) IN
                /\ httpCache' = CacheAfter(l.path, res, store)
                /\ loadHist' = HistAfter(l.path, svg)
                /\ ev' = [op |-> "loadDone", tick |-> Tick, path |-> l.path, res |-> res,
                          hit |-> l.hit, svg |-> svg,
                          seen |-> l.seen]
      /\ loads' = loads (-) SetToBag({l})
      /\ UNCHANGED <<currentIcon, rendered, lastCall, fallback>>
      /\ UNCHANGED <<clickVars, fsVars, pipVars, rateVars, playerVars>>

IdleClick == /\ cbPending = 0 /\ unhandledRejection = FALSE
             /\ hostDispatchError = FALSE /\ caught = ""
IdleFs    == /\ isFullscreen = FALSE /\ fsCalls = EmptyBag /\ fsEvents = 0
IdlePip   == /\ pipElement = NULL /\ pipCalls = EmptyBag
             /\ pipSupport = [enabled |-> TRUE, tech |-> "video"]
\* A paused player at full volume, without a BigPlayButton child.
NoOverlay == [exists |-> FALSE]
NoEvents == [l \in {"overlay", "playPause", "volume"} |-> <<>>]
IdlePlayer == /\ paused = TRUE /\ muted = FALSE /\ volume = 100 /\ currentTime = 0
              /\ events = NoEvents /\ overlay = NoOverlay
IdleRate  == /\ playbackRate = 1000 /\ menu = [exists |-> FALSE, panels |-> 0]
             /\ rateHist = <<1000>>

InitLoader ==
    /\ currentIcon = <<>> /\ rendered = <<>> /\ lastCall = <<>> /\ fallback = <<>>
    /\ loads = EmptyBag
    /\ httpCache = <<>>
    /\ loadHist = <<>>
    /\ ev = [op |-> "init", tick |-> 0]
    /\ IdleClick /\ IdleFs /\ IdlePip /\ IdleRate /\ IdlePlayer

NextLoader ==
    \/ \E n \in LoaderNames : loadSVG_call(n)
    \/ loadSVG_return

SpecLoader == InitLoader /\ [][NextLoader]_vars

----------------------------------------------------------------------------
(* SVGIconButton *)

\* opts.label of the buttons: the six that setup() creates, and two buttons
\* created by another user of the registered component, one without a label.
Label(b) ==
    CASE b = "playPause" -> "Play/Pause"
      [] b = "stop"      -> "Stop"
      [] b = "volume"    -> "Mute/Volume"
      [] b = "gear"      -> "Settings"
      [] b = "pip"       -> "Picture-in-Picture"
      [] b = "fs"        -> "Fullscreen"
      [] b = "labelled"  -> "Chapters"
      [] OTHER           -> ""

\* The content of a button's element.
InitialContent == [kind |-> "initial", val |-> ""]
TextContent(t) == [kind |-> "text", val |-> t]

\* setButtonSVG(el, svgText): the element is emptied, and the markup, if any,
\* is mounted in a span of class vjs-icon-svg.
setButtonSVG(svgText) ==
    IF falsy(svgText) THEN [kind |-> "empty", val |-> ""]
    ELSE [kind |-> "svg", val |-> svgText]

\* The fallback text without the `|| iconName`.
fallbackText_labelOnly(label, iconName) == label

\* `this.opts?.label || iconName`
fallbackText(label, iconName) == IF label # "" THEN label ELSE iconName

\* The guard of updateIcon without the comparison with currentIcon.
updateIconSkips_emptyOnly(cur, iconName) == iconName = ""

\* `!iconName || iconName === this.currentIcon`
updateIconSkips(cur, iconName) == iconName = "" \/ iconName = cur

\* History: no failed load is on record for the button.
NoFallback == [name |-> "", latest |-> FALSE, alone |-> FALSE]

\* History: load l of a button has just ended in the text fallback; `latest`
\* says that it was the load of the button's currentIcon, `alone` that in
\* addition the button awaited no other load at that moment.
FallbackOf(l) ==
    [name |-> l.name,
     latest |-> currentIcon[l.btn] = l.name,
     alone |-> /\ currentIcon[l.btn] = l.name
               /\ \A o \in BagToSet(loads (-) SetToBag({l})) : o.btn # l.btn]

\* updateIcon(iconName) on button b, up to `await loadSVG(path, this.opts)`.
\* Part of the action of whoever calls it.
updateIcon(b, iconName) ==
    /\ lastCall' = [lastCall EXCEPT ![b] = iconName]
    /\ IF updateIconSkips(currentIcon[b], iconName)
       THEN UNCHANGED <<currentIcon, loads, fallback>>
       ELSE /\ BagCardinality(loads) < MaxInFlight
            /\ currentIcon' = [currentIcon EXCEPT ![b] = iconName]
            /\ loads' = loads (+) SetToBag({Load(b, iconName)})
            /\ fallback' = [fallback EXCEPT ![b] = NoFallback]

\* The continuation dropping the result of a load that is no longer the
\* button's currentIcon.
updateIcon_resume_latestOnly ==
    \E l \in BagToSet(loads) :
      /\ l.btn \in DOMAIN currentIcon
      /\ \E res \in (IF l.hit = NoEntry THEN NetworkAnswers(l.path) ELSE {l.hit}),
            store \in BOOLEAN :
           /\ (l.hit # NoEntry \/ fetchRejects(res)) => ~store
           /\ LET svg == loadSVG(l.path, res) IN
                /\ httpCache' = CacheAfter(l.path, res, store)
                /\ rendered' = [rendered EXCEPT ![l.btn] =
                       IF l.name # currentIcon[l.btn] THEN @
                       ELSE IF falsy(svg) THEN TextContent(fallbackText(Label(l.btn), l.name))
                       ELSE setButtonSVG(svg)]
                /\ fallback' = IF falsy(svg) /\ l.name = currentIcon[l.btn]
                               THEN [fallback EXCEPT ![l.btn] = FallbackOf(l)]
                               ELSE fallback
                /\ ev' = [op |-> "iconDone", tick |-> Tick, btn |-> l.btn,
                          name |-> l.name, svg |-> svg]
      /\ loads' = loads (-) SetToBag({l})
      /\ UNCHANGED <<currentIcon, loadHist, lastCall>>
      /\ UNCHANGED <<clickVars, fsVars, pipVars, rateVars, playerVars>>

\* The continuation forgetting currentIcon when the load has failed, so that
\* the next updateIcon with the same name asks again.
updateIcon_resume_forgetOnFailure ==
    \E l \in BagToSet(loads) :
      /\ l.btn \in DOMAIN currentIcon
      /\ \E res \in (IF l.hit = NoEntry THEN NetworkAnswers(l.path) ELSE {l.hit}),
            store \in BOOLEAN :
           /\ (l.hit # NoEntry \/ fetchRejects(res)) => ~store
           /\ LET svg == loadSVG(l.path, res) IN
                /\ httpCache' = CacheAfter(l.path, res, store)
                /\ rendered' = [rendered EXCEPT ![l.btn] =
                       IF falsy(svg) THEN TextContent(fallbackText(Label(l.btn), l.name))
                       ELSE setButtonSVG(svg)]
                /\ currentIcon' = IF falsy(svg) THEN [currentIcon EXCEPT ![l.btn] = NULL]
                                  ELSE currentIcon
                /\ fallback' = IF falsy(svg)
                               THEN [fallback EXCEPT ![l.btn] = FallbackOf(l)]
                               ELSE fallback
                /\ ev' = [op |-> "iconDone", tick |-> Tick, btn |-> l.btn,
                          name |-> l.name, svg |-> svg]
      /\ loads' = loads (-) SetToBag({l})
      /\ UNCHANGED <<loadHist, lastCall>>
      /\ UNCHANGED <<clickVars, fsVars, pipVars, rateVars, playerVars>>

\* updateIcon from the point loadSVG returns: the text fallback or the icon.
updateIcon_resume ==
    \E l \in BagToSet(loads) :
      /\ l.btn \in DOMAIN currentIcon
      /\ \E res \in (IF l.hit = NoEntry THEN NetworkAnswers(l.path) ELSE {l.hit}),
            store \in BOOLEAN :
           /\ (l.hit # NoEntry \/ fetchRejects(res)) => ~store
           /\ LET svg == loadSVG(l.path, res) IN
                /\ httpCache' = CacheAfter(l.path, res, store)
                /\ rendered' = [rendered EXCEPT ![l.btn] =
                       IF falsy(svg) THEN TextContent(fallbackText(Label(l.btn), l.name))
                       ELSE setButtonSVG(svg)]
                /\ fallback' = IF falsy(svg)
                               THEN [fallback EXCEPT ![l.btn] = FallbackOf(l)]
                               ELSE fallback
                /\ ev' = [op |-> "iconDone", tick |-> Tick, btn |-> l.btn,
                          name |-> l.name, svg |-> svg]
      /\ loads' = loads (-) SetToBag({l})
      /\ UNCHANGED <<currentIcon, loadHist, lastCall>>
      /\ UNCHANGED <<clickVars, fsVars, pipVars, rateVars, playerVars>>

\* The state right after `new SVGIconButton(player, {icon})` on a page whose
\* HTTP cache holds nothing yet: the constructor has called updateIcon(icon).
Constructed(icons) ==
    /\ currentIcon = [b \in DOMAIN icons |-> IF icons[b] = "" THEN NULL ELSE icons[b]]
    /\ rendered = [b \in DOMAIN icons |-> InitialContent]
    /\ lastCall = icons
    /\ fallback = [b \in DOMAIN icons |-> NoFallback]
    /\ httpCache = <<>>
    /\ loads = SetToBag({ [btn |-> b, name |-> icons[b], path |-> PathOf(icons[b]),
                           hit |-> NoEntry, seen |-> NoHist] :
                          b \in {x \in DOMAIN icons : icons[x] # ""} })
    /\ loadHist = <<>>
    /\ ev = [op |-> "init", tick |-> 0]

----------------------------------------------------------------------------
(* One SVGIconButton driven by its callers *)

TestButtons == {"bare", "labelled"}
TestNames == {"", "play", "pause"}

\* typeof this.opts.onClick === 'function'
HasOnClick(b) == b # "bare"

\* Some subscriber calls b.updateIcon(n).
CallUpdateIcon(b, n) ==
    /\ b \in DOMAIN currentIcon
    /\ updateIcon(b, n)
    /\ ev' = [op |-> "updateIcon", tick |-> Tick, btn |-> b, name |-> n,
              prev |-> lastCall[b], issued |-> ~updateIconSkips(currentIcon[b], n)]
    /\ UNCHANGED <<rendered, httpCache, loadHist>>
    /\ UNCHANGED <<clickVars, fsVars, pipVars, rateVars, playerVars>>

\* What a call of the configured onClick can do: return, throw, or (an async
\* function, or one that returns a promise) hand back a pending promise.
CallbackOutcomes == {"returns", "throws", "promise"}

\* handleClick(): the host's click dispatch on button b.
handleClick(b) ==
    /\ b \in DOMAIN currentIcon
    /\ \E out \in (IF HasOnClick(b) THEN CallbackOutcomes ELSE {"noCallback"}) :
         /\ out = "promise" => cbPending < MaxCalls
         /\ cbPending' = IF out = "promise" THEN cbPending + 1 ELSE cbPending
         /\ caught' = IF out = "throws" THEN "onClick error" ELSE caught
         /\ ev' = [op |-> "click", tick |-> Tick, btn |-> b, out |-> out]
    /\ UNCHANGED <<hostDispatchError, unhandledRejection>>
    /\ UNCHANGED <<substrate, loadHist, lastCall, fallback, fsVars, pipVars, rateVars, playerVars>>

\* A promise that an onClick call returned settles.  handleClick kept no
\* reference to it, so nothing handles its rejection.
CallbackSettles ==
    /\ cbPending > 0
    /\ cbPending' = cbPending - 1
    /\ \E ok \in BOOLEAN :
         /\ unhandledRejection' = (unhandledRejection \/ ~ok)
         /\ ev' = [op |-> "callbackSettled", tick |-> Tick, ok |-> ok]
    /\ UNCHANGED <<hostDispatchError, caught>>
    /\ UNCHANGED <<substrate, loadHist, lastCall, fallback, fsVars, pipVars, rateVars, playerVars>>

InitButton ==
    /\ \E b \in TestButtons, icon \in {"", "play"} : Constructed([x \in {b} |-> icon])
    /\ IdleClick /\ IdleFs /\ IdlePip /\ IdleRate /\ IdlePlayer

NextButton ==
    \/ \E b \in TestButtons, n \in TestNames : CallUpdateIcon(b, n)
    \/ updateIcon_resume

SpecButton == InitButton /\ [][NextButton]_vars

\* The same button under clicks: its onClick callback does not touch the icon.
NextClick ==
    \/ \E b \in TestButtons : handleClick(b)
    \/ CallbackSettles
    \/ updateIcon_resume

SpecClick == InitButton /\ [][NextClick]_vars

----------------------------------------------------------------------------
(* Fullscreen button *)

\* What p.requestFullscreen() / p.exitFullscreen() can do when called: throw,
\* or start a platform request that is granted or refused later.
HostCallOutcomes == {"throws", "started"}

\* fsBtn onClick, run by handleClick: the host call, then updateIcon in the
\* same synchronous branch; a throw of the host call skips the updateIcon.
fsBtn_onClick ==
    /\ \E out \in HostCallOutcomes :
         /\ out = "started" => BagCardinality(fsCalls) < MaxCalls
         /\ fsCalls' = IF out = "started"
                       THEN fsCalls (+) SetToBag({[kind |-> IF isFullscreen THEN "exit" ELSE "enter",
                                                   pre |-> currentIcon["fs"]]})
                       ELSE fsCalls
         /\ caught' = IF out = "throws" THEN "Fullscreen error" ELSE caught
         /\ IF out = "started"
            THEN updateIcon("fs", IF isFullscreen THEN "full" ELSE "full_exit")
            ELSE UNCHANGED <<currentIcon, loads, lastCall, fallback>>
         /\ ev' = [op |-> "fsClick", tick |-> Tick, out |-> out, pre |-> currentIcon["fs"]]
    /\ UNCHANGED <<rendered, httpCache, loadHist, isFullscreen, fsEvents>>
    /\ UNCHANGED <<cbPending, unhandledRejection, hostDispatchError, pipVars, rateVars, playerVars>>

\* The platform grants or refuses a fullscreen request that was started; a
\* granted request that changes the state emits fullscreenchange.
FullscreenSettles ==
    \E c \in BagToSet(fsCalls), ok \in BOOLEAN :
      LET now == IF ok THEN c.kind = "enter" ELSE isFullscreen IN
        /\ now # isFullscreen => fsEvents < MaxEvents
        /\ isFullscreen' = now
        /\ fsEvents' = IF now # isFullscreen THEN fsEvents + 1 ELSE fsEvents
        /\ fsCalls' = fsCalls (-) SetToBag({c})
        /\ ev' = [op |-> "fsSettled", tick |-> Tick, kind |-> c.kind, ok |-> ok, pre |-> c.pre]
        /\ UNCHANGED <<substrate, loadHist, lastCall, fallback, clickVars, pipVars, rateVars, playerVars>>

\* Fullscreen is entered or left without the button (Esc, the host's own UI).
FullscreenNative ==
    /\ fsEvents < MaxEvents
    /\ isFullscreen' = ~isFullscreen
    /\ fsEvents' = fsEvents + 1
    /\ ev' = [op |-> "fsNative", tick |-> Tick]
    /\ UNCHANGED <<fsCalls, substrate, loadHist, lastCall, fallback, clickVars, pipVars, rateVars, playerVars>>

\* player.on('fullscreenchange', ...)
on_fullscreenchange ==
    /\ fsEvents > 0
    /\ fsEvents' = fsEvents - 1
    /\ updateIcon("fs", IF isFullscreen THEN "full_exit" ELSE "full")
    /\ ev' = [op |-> "fullscreenchange", tick |-> Tick]
    /\ UNCHANGED <<rendered, httpCache, loadHist, isFullscreen, fsCalls>>
    /\ UNCHANGED <<clickVars, pipVars, rateVars, playerVars>>

InitFs ==
    /\ Constructed([b \in {"fs"} |-> "full"])
    /\ IdleClick /\ IdleFs /\ IdlePip /\ IdleRate /\ IdlePlayer

NextFs ==
    \/ fsBtn_onClick
    \/ FullscreenSettles
    \/ FullscreenNative
    \/ on_fullscreenchange
    \/ updateIcon_resume

SpecFs == InitFs /\ [][NextFs]_vars

----------------------------------------------------------------------------
(* Picture-in-Picture button *)

NotSupported == "Picture-in-Picture not supported"

\* document.pictureInPictureEnabled && videoEl.requestPictureInPicture, where
\* videoEl is player.tech_?.el(): a video element with the method ("video"),
\* one without it ("noMethod"), or undefined ("none").
PipSupports ==
    { [enabled |-> e, tech |-> t] : e \in BOOLEAN, t \in {"video", "noMethod", "none"} }

\* enterPiP that returns quietly where the platform has no support.
enterPiP_silent(el, support) ==
    IF el # NULL THEN "returns"
    ELSE IF support.enabled /\ support.tech = "none" THEN "TypeError"
    ELSE IF support.enabled /\ support.tech = "video" THEN "requests"
    ELSE "returns"

\* enterPiP(videoEl), up to its await: what the call does, given the element
\* in picture-in-picture and the platform's support.  Reading a property of an
\* undefined videoEl is a TypeError.
enterPiP(el, support) ==
    IF el # NULL THEN "returns"
    ELSE IF support.enabled /\ support.tech = "none" THEN "TypeError"
    ELSE IF support.enabled /\ support.tech = "video" THEN "requests"
    ELSE NotSupported

\* exitPiP(), up to its await
exitPiP(el) == IF el # NULL THEN "requests" ELSE "returns"

\* pipBtn onClick with the icon flipped before the platform call is awaited.
pipBtn_onClick_optimistic ==
    LET isActive == pipElement # NULL
        does == IF isActive THEN exitPiP(pipElement) ELSE enterPiP(pipElement, pipSupport)
    IN
    /\ does = "requests" => BagCardinality(pipCalls) < MaxCalls
    /\ pipCalls' = IF does = "requests"
                   THEN pipCalls (+) SetToBag({[kind |-> IF isActive THEN "exit" ELSE "enter"]})
                   ELSE pipCalls
    /\ IF does \in {"returns", "requests"}
       THEN updateIcon("pip", IF isActive THEN "pip" ELSE "pip_exit")
       ELSE UNCHANGED <<currentIcon, loads, lastCall, fallback>>
    /\ caught' = IF does \in {"returns", "requests"} THEN caught ELSE "PiP error: " \o does
    /\ ev' = [op |-> "pipClick", tick |-> Tick, active |-> isActive, does |-> does,
              pre |-> currentIcon["pip"]]
    /\ UNCHANGED <<rendered, httpCache, loadHist, pipElement, pipSupport>>
    /\ UNCHANGED <<cbPending, unhandledRejection, hostDispatchError, fsVars, rateVars, playerVars>>

\* pipBtn onClick, run by handleClick, up to its await: a platform call is
\* started, or the helper has returned at once and updateIcon runs, or the
\* helper has thrown and the catch block of line 260 has the error.
pipBtn_onClick ==
    LET isActive == pipElement # NULL
        does == IF isActive THEN exitPiP(pipElement) ELSE enterPiP(pipElement, pipSupport)
    IN
    /\ does = "requests" => BagCardinality(pipCalls) < MaxCalls
    /\ pipCalls' = IF does = "requests"
                   THEN pipCalls (+) SetToBag({[kind |-> IF isActive THEN "exit" ELSE "enter"]})
                   ELSE pipCalls
    /\ IF does = "returns"
       THEN updateIcon("pip", IF isActive THEN "pip" ELSE "pip_exit")
       ELSE UNCHANGED <<currentIcon, loads, lastCall, fallback>>
    /\ caught' = IF does \in {"returns", "requests"} THEN caught ELSE "PiP error: " \o does
    /\ ev' = [op |-> "pipClick", tick |-> Tick, active |-> isActive, does |-> does,
              pre |-> currentIcon["pip"]]
    /\ UNCHANGED <<rendered, httpCache, loadHist, pipElement, pipSupport>>
    /\ UNCHANGED <<cbPending, unhandledRejection, hostDispatchError, fsVars, rateVars, playerVars>>

\* The platform resolves or rejects a picture-in-picture call, and the onClick
\* that awaits it resumes: updateIcon after a resolution, the catch block
\* after a rejection.  Leaving picture-in-picture while no element is in it
\* is rejected.
pipBtn_onClick_resume ==
    \E c \in BagToSet(pipCalls), ok \in BOOLEAN :
      /\ (c.kind = "exit" /\ pipElement = NULL) => ~ok
      /\ pipCalls' = pipCalls (-) SetToBag({c})
      /\ pipElement' = IF ~ok THEN pipElement ELSE IF c.kind = "enter" THEN "video" ELSE NULL
      /\ IF ok
         THEN updateIcon("pip", IF c.kind = "enter" THEN "pip_exit" ELSE "pip")
         ELSE UNCHANGED <<currentIcon, loads, lastCall, fallback>>
      /\ caught' = IF ok THEN caught ELSE "PiP error: rejected"
      /\ ev' = [op |-> "pipSettled", tick |-> Tick, kind |-> c.kind, ok |-> ok,
                pre |-> currentIcon["pip"]]
      /\ UNCHANGED <<rendered, httpCache, loadHist, pipSupport>>
      /\ UNCHANGED <<cbPending, unhandledRejection, hostDispatchError, fsVars, rateVars, playerVars>>

\* Picture-in-picture changes without the button: the user closes the
\* window, or uses the browser's own control, or another element enters it.
PipNative ==
    /\ pipSupport.enabled
    /\ \E el \in {NULL, "video", "other"} \ {pipElement} :
         /\ el = "video" => pipSupport.tech # "none"
         /\ pipElement' = el
    /\ ev' = [op |-> "pipNative", tick |-> Tick]
    /\ UNCHANGED <<pipSupport, pipCalls, substrate, loadHist, lastCall, fallback, clickVars, fsVars, rateVars, playerVars>>

InitPip ==
    /\ Constructed([b \in {"pip"} |-> "pip"])
    /\ pipSupport \in PipSupports
    /\ pipElement \in (IF pipSupport.enabled THEN {NULL, "other"} ELSE {NULL})
    /\ pipCalls = EmptyBag
    /\ IdleClick /\ IdleFs /\ IdleRate /\ IdlePlayer

NextPip ==
    \/ pipBtn_onClick
    \/ pipBtn_onClick_resume
    \/ PipNative
    \/ updateIcon_resume

SpecPip == InitPip /\ [][NextPip]_vars

----------------------------------------------------------------------------
(* Settings panel and playback-rate stepper *)

\* Rates the host player can be at when the panel is not the one setting them.
HostRates == {1000, 1333, 2500}

RECURSIVE IntDigits(_)
\* The decimal digits of a natural number.
IntDigits(n) ==
    LET d == <<"0", "1", "2", "3", "4", "5", "6", "7", "8", "9">>[(n % 10) + 1]
    IN IF n < 10 THEN <<d>> ELSE Append(IntDigits(n \div 10), d)

\* `${next}`: the shortest decimal that reads back as the number; no
\* fraction for a whole number, no trailing zeros.
NumberToString(r) ==
    LET whole == IntDigits(r \div 1000)
        f == r % 1000
        frac == IF f = 0 THEN <<>>
                ELSE IF f % 100 = 0 THEN IntDigits(f \div 100)
                ELSE IF f % 10 = 0 THEN (IF f < 100 THEN <<"0">> ELSE <<>>) \o IntDigits(f \div 10)
                ELSE (IF f < 10 THEN <<"0", "0">> ELSE IF f < 100 THEN <<"0">> ELSE <<>>)
                     \o IntDigits(f)
    IN IF frac = <<>> THEN whole ELSE whole \o <<".">> \o frac

DigitValue(c) ==
    CHOOSE v \in 0..9 : <<"0", "1", "2", "3", "4", "5", "6", "7", "8", "9">>[v + 1] = c

RECURSIVE DigitsValue(_)
DigitsValue(ds) ==
    IF ds = <<>> THEN 0
    ELSE 10 * DigitsValue(SubSeq(ds, 1, Len(ds) - 1)) + DigitValue(ds[Len(ds)])

\* The rate a displayed value such as 1.25x stands for, in thousandths
\* (displayed values have at most three decimals).
DisplayedRate(text) ==
    LET num == SubSeq(text, 1, Len(text) - 1)
        dots == {i \in 1..Len(num) : num[i] = "."}
        dot == IF dots = {} THEN Len(num) + 1 ELSE CHOOSE i \in dots : TRUE
        whole == SubSeq(num, 1, dot - 1)
        frac == SubSeq(num, dot + 1, Len(num))
        pad == [i \in 1..3 |-> IF i <= Len(frac) THEN frac[i] ELSE "0"]
    IN 1000 * DigitsValue(whole) + DigitsValue(pad)

\* Math.round(x * 100) / 100 for x in thousandths (halves round up)
round2(x) == ((x + 5) \div 10) * 10

\* The step with the wrap taken only above 2.
nextRate_wrapAbove(current) ==
    IF current > 2000 THEN 1000 ELSE round2(current + 250)

\* `current >= 2 ? 1 : (Math.round((current + 0.25) * 100) / 100)`
nextRate(current) ==
    IF current >= 2000 THEN 1000 ELSE round2(current + 250)

\* The row's text written from the rate read before the step.
rateLabel_stale(current, next) == NumberToString(current) \o <<"x">>

\* `${next}x`, the text the click listener writes into the row (line 126)
rateLabel(current, next) == NumberToString(next) \o <<"x">>

\* No .vjs-settings-menu element in the player yet.
NoMenu == [exists |-> FALSE, panels |-> 0]

\* ensureSettingsMenu without the lookup: a panel is built on every call.
ensureSettingsMenu_noLookup ==
    [exists |-> TRUE, panels |-> menu.panels + 1, hidden |-> TRUE,
     rateText |-> <<"1", ".", "0", "x">>, qualityText |-> "Auto",
     listeners |-> IF menu.exists THEN menu.listeners + 1 ELSE 1]

\* ensureSettingsMenu(player): the player's panel (the first element that
\* querySelector finds), created hidden on first use with the markup of lines
\* 106-114 and one click listener.  `panels` counts the .vjs-settings-menu
\* elements in the player, `listeners` the click listeners registered.
ensureSettingsMenu ==
    IF menu.exists THEN menu
    ELSE [exists |-> TRUE, panels |-> menu.panels + 1, hidden |-> TRUE,
          rateText |-> <<"1", ".", "0", "x">>, qualityText |-> "Auto", listeners |-> 1]

\* Someone calls ensureSettingsMenu(player) and leaves the panel as it is.
ensureSettingsMenu_call ==
    /\ menu' = ensureSettingsMenu
    /\ ev' = [op |-> "ensureMenu", tick |-> Tick]
    /\ UNCHANGED <<playbackRate, rateHist>>
    /\ UNCHANGED <<substrate, loadHist, lastCall, fallback, clickVars, fsVars, pipVars, playerVars>>

\* The onClick taking the panel for open when the toggle returns true.
gearBtn_onClick_inverted ==
    LET m == ensureSettingsMenu
        open == ~m.hidden
    IN /\ menu' = [m EXCEPT !.hidden = ~m.hidden]
       /\ updateIcon("gear", IF open THEN "gear_open" ELSE "gear")
       /\ ev' = [op |-> "gearClick", tick |-> Tick]
       /\ UNCHANGED <<rendered, httpCache, loadHist, playbackRate, rateHist>>
       /\ UNCHANGED <<clickVars, fsVars, pipVars, playerVars>>

\* gearBtn onClick, run by handleClick
gearBtn_onClick ==
    LET m == ensureSettingsMenu
        open == m.hidden     \* classList.toggle('hidden') === false
    IN /\ menu' = [m EXCEPT !.hidden = ~m.hidden]
       /\ updateIcon("gear", IF open THEN "gear_open" ELSE "gear")
       /\ ev' = [op |-> "gearClick", tick |-> Tick]
       /\ UNCHANGED <<rendered, httpCache, loadHist, playbackRate, rateHist>>
       /\ UNCHANGED <<clickVars, fsVars, pipVars, playerVars>>

\* The panel's click listener (lines 118-129) for a click on the heading
\* (no .vjs-settings-item around the target), the playback-speed row or the
\* quality row.
MenuClick(target) ==
    /\ menu.exists
    /\ IF target = "playbackRate"
       THEN LET current == playbackRate
                next == nextRate(current)
            IN /\ Len(rateHist) <= MaxSteps
               /\ playbackRate' = next
               /\ menu' = [menu EXCEPT !.rateText = rateLabel(current, next)]
               /\ rateHist' = Append(rateHist, next)
               /\ ev' = [op |-> "rateClick", tick |-> Tick, from |-> current]
       ELSE /\ UNCHANGED rateVars
            /\ ev' = [op |-> "menuClick", tick |-> Tick, target |-> target]
    /\ UNCHANGED <<substrate, loadHist, lastCall, fallback, clickVars, fsVars, pipVars, playerVars>>

\* The rate is set without the panel (the host's own rate control, the page).
HostSetsRate(r) ==
    /\ r # playbackRate
    /\ playbackRate' = r
    /\ rateHist' = <<r>>
    /\ ev' = [op |-> "hostRate", tick |-> Tick]
    /\ UNCHANGED <<menu, substrate, loadHist, lastCall, fallback, clickVars, fsVars, pipVars, playerVars>>

InitRate ==
    /\ Constructed([b \in {"gear"} |-> "gear"])
    /\ playbackRate \in HostRates
    /\ menu = NoMenu
    /\ rateHist = <<playbackRate>>
    /\ IdleClick /\ IdleFs /\ IdlePip /\ IdlePlayer

NextRate ==
    \/ gearBtn_onClick
    \/ \E t \in {"heading", "playbackRate", "quality"} : MenuClick(t)
    \/ \E r \in HostRates : HostSetsRate(r)
    \/ updateIcon_resume

SpecRate == InitRate /\ [][NextRate]_vars

\* The settings button and its panel, the rows left alone.
InitGear ==
    /\ Constructed([b \in {"gear"} |-> "gear"])
    /\ IdleRate /\ IdleClick /\ IdleFs /\ IdlePip /\ IdlePlayer

NextGear ==
    \/ gearBtn_onClick
    \/ ensureSettingsMenu_call
    \/ \E t \in {"heading", "quality"} : MenuClick(t)
    \/ updateIcon_resume

SpecGear == InitGear /\ [][NextGear]_vars

----------------------------------------------------------------------------
(* Player notifications *)

\* The listeners that setup() registers on the player: lines 166-168 (the
\* overlay), 188 (the play/pause button) and 226 (the volume button).  A
\* listener is listed only where the thing it updates exists.
Subscribed(l, e) ==
    CASE l = "overlay"   -> e \in {"play", "pause", "ended"} /\ overlay.exists
      [] l = "playPause" -> e \in {"play", "pause"} /\ "playPause" \in DOMAIN currentIcon
      [] l = "volume"    -> e = "volumechange" /\ "volume" \in DOMAIN currentIcon

\* The queues q after the player has emitted e: every subscribed listener has
\* one more run to make.
Emitted(q, e) == [l \in DOMAIN q |-> IF Subscribed(l, e) THEN Append(q[l], e) ELSE q[l]]

\* The player emits e.
Emit(e) ==
    /\ \A l \in DOMAIN events : Subscribed(l, e) => Len(events[l]) < MaxEvents
    /\ events' = Emitted(events, e)

\* Listener l takes the notification it has waited for longest.
Handled(l) == [events EXCEPT ![l] = Tail(events[l])]

----------------------------------------------------------------------------
(* Volume icon *)

\* player.volume() in hundredths
Volumes == 0..100

\* volumeIconFor with the thresholds excluded from the lower band.
volumeIconFor_exclusive(m, v) ==
    IF m \/ v = 0 THEN "audio_mute"
    ELSE IF v < 33 THEN "audio_low"
    ELSE IF v < 66 THEN "audio_mid"
    ELSE "audio_full"

\* volumeIconFor(player), by player.muted() and player.volume()
volumeIconFor(m, v) ==
    IF m \/ v = 0 THEN "audio_mute"
    ELSE IF v <= 33 THEN "audio_low"
    ELSE IF v <= 66 THEN "audio_mid"
    ELSE "audio_full"

\* Someone evaluates volumeIconFor(player).
volumeIconFor_call ==
    /\ ev' = [op |-> "volumeIconFor", tick |-> Tick, muted |-> muted, volume |-> volume,
              icon |-> volumeIconFor(muted, volume)]
    /\ UNCHANGED <<substrate, loadHist, lastCall, fallback>>
    /\ UNCHANGED <<clickVars, fsVars, pipVars, rateVars, playerVars>>

\* A player in any volume state, no button built yet.
InitVolumeIcon ==
    /\ currentIcon = <<>> /\ rendered = <<>> /\ lastCall = <<>> /\ fallback = <<>>
    /\ loads = EmptyBag /\ httpCache = <<>> /\ loadHist = <<>>
    /\ ev = [op |-> "init", tick |-> 0]
    /\ muted \in BOOLEAN /\ volume \in Volumes
    /\ paused = TRUE /\ currentTime = 0 /\ events = NoEvents /\ overlay = NoOverlay
    /\ IdleClick /\ IdleFs /\ IdlePip /\ IdleRate

NextVolumeIcon == volumeIconFor_call

SpecVolumeIcon == InitVolumeIcon /\ [][NextVolumeIcon]_vars

----------------------------------------------------------------------------
(* Mute / volume button *)

\* The volumes the slider is moved to.
HostVolumes == {0, 50}

\* The onClick computing the icon before it toggles the flag.
volumeBtn_onClick_staleIcon ==
    /\ muted' = ~muted
    /\ Emit("volumechange")
    /\ updateIcon("volume", volumeIconFor(muted, volume))
    /\ ev' = [op |-> "volumeClick", tick |-> Tick, muted |-> muted, volume |-> volume]
    /\ UNCHANGED <<rendered, httpCache, loadHist, paused, volume, currentTime, overlay>>
    /\ UNCHANGED <<clickVars, fsVars, pipVars, rateVars>>

\* volumeBtn's onClick: p.muted(!p.muted()); this.updateIcon(volumeIconFor(p)).
\* The player answers the change of the flag with a volumechange.
volumeBtn_onClick ==
    /\ muted' = ~muted
    /\ Emit("volumechange")
    /\ updateIcon("volume", volumeIconFor(muted', volume))
    /\ ev' = [op |-> "volumeClick", tick |-> Tick, muted |-> muted, volume |-> volume]
    /\ UNCHANGED <<rendered, httpCache, loadHist, paused, volume, currentTime, overlay>>
    /\ UNCHANGED <<clickVars, fsVars, pipVars, rateVars>>

\* player.on(['volumechange'], ...) of line 226
on_volumechange ==
    /\ events["volume"] # <<>>
    /\ events' = Handled("volume")
    /\ updateIcon("volume", volumeIconFor(muted, volume))
    /\ ev' = [op |-> "volumechange", tick |-> Tick]
    /\ UNCHANGED <<rendered, httpCache, loadHist, paused, muted, volume, currentTime, overlay>>
    /\ UNCHANGED <<clickVars, fsVars, pipVars, rateVars>>

\* The volume is changed elsewhere (the slider, a key, another script).
HostSetsVolume(v) ==
    /\ v # volume
    /\ volume' = v
    /\ Emit("volumechange")
    /\ ev' = [op |-> "hostVolume", tick |-> Tick]
    /\ UNCHANGED <<substrate, loadHist, lastCall, fallback, paused, muted, currentTime, overlay>>
    /\ UNCHANGED <<clickVars, fsVars, pipVars, rateVars>>

\* The muted flag is changed elsewhere.
HostSetsMuted ==
    /\ muted' = ~muted
    /\ Emit("volumechange")
    /\ ev' = [op |-> "hostMuted", tick |-> Tick]
    /\ UNCHANGED <<substrate, loadHist, lastCall, fallback, paused, volume, currentTime, overlay>>
    /\ UNCHANGED <<clickVars, fsVars, pipVars, rateVars>>

InitVolume ==
    /\ muted \in BOOLEAN /\ volume \in HostVolumes
    /\ Constructed([b \in {"volume"} |-> volumeIconFor(muted, volume)])
    /\ paused = TRUE /\ currentTime = 0 /\ events = NoEvents /\ overlay = NoOverlay
    /\ IdleClick /\ IdleFs /\ IdlePip /\ IdleRate

NextVolume ==
    \/ volumeBtn_onClick
    \/ on_volumechange
    \/ \E v \in HostVolumes : HostSetsVolume(v)
    \/ HostSetsMuted
    \/ updateIcon_resume

SpecVolume == InitVolume /\ [][NextVolume]_vars

----------------------------------------------------------------------------
(* Play / pause button *)

\* player.paused() ? 'play' : 'pause'
playPauseIcon(p) == IF p THEN "play" ELSE "pause"

\* The onClick showing the opposite of the state it found.
playPause_onClick_optimistic ==
    /\ \E starts \in BOOLEAN :
         IF paused /\ ~starts THEN UNCHANGED <<paused, events>>
         ELSE /\ paused' = ~paused
              /\ Emit(IF paused THEN "play" ELSE "pause")
    /\ updateIcon("playPause", playPauseIcon(~paused))
    /\ ev' = [op |-> "playPauseClick", tick |-> Tick, paused |-> paused]
    /\ UNCHANGED <<rendered, httpCache, loadHist, muted, volume, currentTime, overlay>>
    /\ UNCHANGED <<clickVars, fsVars, pipVars, rateVars>>

\* playPause's onClick.  p.pause() takes effect at once; p.play() either does
\* (starts) or leaves the player paused for now: the request waits for the
\* media, or the platform refuses it.  The player reports each change of
\* state with a play or pause notification.
playPause_onClick ==
    /\ \E starts \in BOOLEAN :
         IF paused /\ ~starts THEN UNCHANGED <<paused, events>>
         ELSE /\ paused' = ~paused
              /\ Emit(IF paused THEN "play" ELSE "pause")
    /\ updateIcon("playPause", playPauseIcon(paused'))
    /\ ev' = [op |-> "playPauseClick", tick |-> Tick, paused |-> paused]
    /\ UNCHANGED <<rendered, httpCache, loadHist, muted, volume, currentTime, overlay>>
    /\ UNCHANGED <<clickVars, fsVars, pipVars, rateVars>>

\* player.on(['play', 'pause'], ...) of line 188
on_playpause ==
    /\ events["playPause"] # <<>>
    /\ events' = Handled("playPause")
    /\ updateIcon("playPause", playPauseIcon(paused))
    /\ ev' = [op |-> "on_playpause", tick |-> Tick, name |-> Head(events["playPause"]),
              issued |-> ~updateIconSkips(currentIcon["playPause"], playPauseIcon(paused))]
    /\ UNCHANGED <<rendered, httpCache, loadHist, paused, muted, volume, currentTime, overlay>>
    /\ UNCHANGED <<clickVars, fsVars, pipVars, rateVars>>

\* Playback starts without a click on the button: a waiting play request is
\* served, a key is pressed, another script calls play().
HostPlays ==
    /\ paused
    /\ paused' = FALSE
    /\ Emit("play")
    /\ ev' = [op |-> "hostPlays", tick |-> Tick]
    /\ UNCHANGED <<substrate, loadHist, lastCall, fallback, muted, volume, currentTime, overlay>>
    /\ UNCHANGED <<clickVars, fsVars, pipVars, rateVars>>

\* Playback is paused without a click on the button.
HostPauses ==
    /\ ~paused
    /\ paused' = TRUE
    /\ Emit("pause")
    /\ ev' = [op |-> "hostPauses", tick |-> Tick]
    /\ UNCHANGED <<substrate, loadHist, lastCall, fallback, muted, volume, currentTime, overlay>>
    /\ UNCHANGED <<clickVars, fsVars, pipVars, rateVars>>

InitPlay ==
    /\ paused \in BOOLEAN
    /\ Constructed([b \in {"playPause"} |-> playPauseIcon(paused)])
    /\ muted = FALSE /\ volume = 100 /\ currentTime = 0
    /\ events = NoEvents /\ overlay = NoOverlay
    /\ IdleClick /\ IdleFs /\ IdlePip /\ IdleRate

NextPlay ==
    \/ playPause_onClick
    \/ on_playpause
    \/ HostPlays
    \/ HostPauses
    \/ updateIcon_resume

SpecPlay == InitPlay /\ [][NextPlay]_vars

----------------------------------------------------------------------------
(* Big overlay icon and Stop button *)

\* Who awaits the loads that setBigOverlaySVG starts.
OverlayEl == "<BigPlayButton>"

\* The loads that setBigOverlaySVG calls await.
OverlayLoads == { l \in BagToSet(loads) : l.btn = OverlayEl }

\* The overlay listeners with each icon named after the state entered.
overlayIconFor_stateNames(e) ==
    CASE e = "play"  -> "bigplay"
      [] e = "pause" -> "bigpause"
      [] e = "ended" -> "bigstop"

\* The icon each overlay listener of lines 166-168 asks for.
overlayIconFor(e) ==
    CASE e = "play"  -> "bigpause"
      [] e = "pause" -> "bigplay"
      [] e = "ended" -> "bigstop"

\* setBigOverlaySVG(player, iconBasePath, name) up to `await loadSVG(...)`.
\* Part of the action of whoever calls it.
setBigOverlaySVG(name) ==
    IF ~overlay.exists THEN UNCHANGED loads
    ELSE /\ BagCardinality(loads) < MaxInFlight
         /\ loads' = loads (+) SetToBag({Load(OverlayEl, name)})

\* setBigOverlaySVG from the point loadSVG returns: nothing without markup,
\* otherwise the element is emptied and the markup mounted.
setBigOverlaySVG_resume ==
    \E l \in OverlayLoads :
      /\ \E res \in (IF l.hit = NoEntry THEN NetworkAnswers(l.path) ELSE {l.hit}),
            store \in BOOLEAN :
           /\ (l.hit # NoEntry \/ fetchRejects(res)) => ~store
           /\ LET svg == loadSVG(l.path, res) IN
                /\ httpCache' = CacheAfter(l.path, res, store)
                /\ overlay' = IF falsy(svg) THEN overlay
                              ELSE [overlay EXCEPT !.content = svg]
                /\ ev' = [op |-> "overlayDone", tick |-> Tick, name |-> l.name, svg |-> svg,
                          was |-> overlay.content]
      /\ loads' = loads (-) SetToBag({l})
      /\ UNCHANGED <<currentIcon, rendered, loadHist, lastCall, fallback>>
      /\ UNCHANGED <<paused, muted, volume, currentTime, events>>
      /\ UNCHANGED <<clickVars, fsVars, pipVars, rateVars>>

\* The listeners of lines 166-168
on_overlay ==
    /\ events["overlay"] # <<>>
    /\ events' = Handled("overlay")
    /\ setBigOverlaySVG(overlayIconFor(Head(events["overlay"])))
    /\ ev' = [op |-> "on_overlay", tick |-> Tick, name |-> Head(events["overlay"]),
              asked |-> overlayIconFor(Head(events["overlay"])),
              before |-> BagCardinality(loads)]
    /\ UNCHANGED <<currentIcon, rendered, httpCache, loadHist, lastCall, fallback>>
    /\ UNCHANGED <<paused, muted, volume, currentTime, overlay>>
    /\ UNCHANGED <<clickVars, fsVars, pipVars, rateVars>>

\* What the player's methods can do when the Stop handler calls them: both
\* return, or p.pause() throws, or p.currentTime(0) throws.
StopOutcomes == {"returns", "pause throws", "currentTime throws"}

\* The Stop handler without the seek.
stopBtn_onClick_noSeek ==
    \E does \in StopOutcomes :
      /\ IF does = "pause throws" \/ paused THEN UNCHANGED <<paused, events>>
         ELSE paused' = TRUE /\ Emit("pause")
      /\ UNCHANGED currentTime
      /\ IF does = "returns"
         THEN setBigOverlaySVG("bigplay") /\ UNCHANGED caught
         ELSE caught' = "Stop error" /\ UNCHANGED loads
      /\ ev' = [op |-> "stopClick", tick |-> Tick, does |-> does, time |-> currentTime,
                before |-> BagCardinality(loads)]
      /\ UNCHANGED <<currentIcon, rendered, httpCache, loadHist, lastCall, fallback>>
      /\ UNCHANGED <<muted, volume, overlay>>
      /\ UNCHANGED <<cbPending, unhandledRejection, hostDispatchError, fsVars, pipVars, rateVars>>

\* stopBtn's onClick: p.pause(); p.currentTime(0); setBigOverlaySVG(...,
\* 'bigplay'), all inside try; the catch block logs 'Stop error'.
stopBtn_onClick ==
    \E does \in StopOutcomes :
      /\ IF does = "pause throws" \/ paused THEN UNCHANGED <<paused, events>>
         ELSE paused' = TRUE /\ Emit("pause")
      /\ IF does = "returns" THEN currentTime' = 0 ELSE UNCHANGED currentTime
      /\ IF does = "returns"
         THEN setBigOverlaySVG("bigplay") /\ UNCHANGED caught
         ELSE caught' = "Stop error" /\ UNCHANGED loads
      /\ ev' = [op |-> "stopClick", tick |-> Tick, does |-> does, time |-> currentTime,
                before |-> BagCardinality(loads)]
      /\ UNCHANGED <<currentIcon, rendered, httpCache, loadHist, lastCall, fallback>>
      /\ UNCHANGED <<muted, volume, overlay>>
      /\ UNCHANGED <<cbPending, unhandledRejection, hostDispatchError, fsVars, pipVars, rateVars>>

\* Playback moves on by a second.
HostTimePasses ==
    /\ ~paused /\ currentTime < Duration
    /\ currentTime' = currentTime + 1
    /\ ev' = [op |-> "hostTime", tick |-> Tick]
    /\ UNCHANGED <<substrate, loadHist, lastCall, fallback, paused, muted, volume, events, overlay>>
    /\ UNCHANGED <<clickVars, fsVars, pipVars, rateVars>>

\* Playback reaches the end of the media: the player pauses there and
\* reports pause, then ended.
HostEnds ==
    /\ ~paused
    /\ paused' = TRUE
    /\ currentTime' = Duration
    /\ \A l \in DOMAIN events : Len(Emitted(Emitted(events, "pause"), "ended")[l]) <= MaxEvents
    /\ events' = Emitted(Emitted(events, "pause"), "ended")
    /\ ev' = [op |-> "hostEnds", tick |-> Tick]
    /\ UNCHANGED <<substrate, loadHist, lastCall, fallback, muted, volume, overlay>>
    /\ UNCHANGED <<clickVars, fsVars, pipVars, rateVars>>

\* The state after setup() on a paused player, as far as the overlay and the
\* Stop button go: line 164 has asked for 'bigplay', and the Stop button
\* shows its icon (it has one icon and never asks for another).
InitOverlay ==
    /\ currentIcon = [b \in {"stop"} |-> "stop"]
    /\ rendered = [b \in {"stop"} |-> setButtonSVG(MarkupAt(PathOf("stop")))]
    /\ lastCall = [b \in {"stop"} |-> "stop"]
    /\ fallback = [b \in {"stop"} |-> NoFallback]
    /\ httpCache = <<>> /\ loadHist = <<>>
    /\ overlay \in {NoOverlay, [exists |-> TRUE, content |-> "initial"]}
    /\ loads = IF overlay.exists
               THEN SetToBag({[btn |-> OverlayEl, name |-> "bigplay",
                               path |-> PathOf("bigplay"), hit |-> NoEntry, seen |-> NoHist]})
               ELSE EmptyBag
    /\ ev = [op |-> "init", tick |-> 0]
    /\ paused = TRUE /\ muted = FALSE /\ volume = 100 /\ currentTime = 0
    /\ events = NoEvents
    /\ IdleClick /\ IdleFs /\ IdlePip /\ IdleRate

\* The overlay and the notifications it listens to.
NextOverlay ==
    \/ on_overlay
    \/ setBigOverlaySVG_resume
    \/ HostPlays
    \/ HostPauses
    \/ HostEnds

SpecOverlay == InitOverlay /\ [][NextOverlay]_vars

\* The Stop button on a player that is played, paused and stopped.
NextStop ==
    \/ stopBtn_onClick
    \/ on_overlay
    \/ setBigOverlaySVG_resume
    \/ HostPlays
    \/ HostTimePasses

SpecStop == InitOverlay /\ [][NextStop]_vars

----------------------------------------------------------------------------
(* Two controls, the load of one of them never resolving *)

\* The continuation held back until the loads of all other controls are done.
ResumeOf_afterOthers(b, n) ==
    /\ \A l \in BagToSet(loads) : l.btn = b
    /\ updateIcon_resume
    /\ ev'.btn = b /\ ev'.name = n

\* updateIcon_resume for the load of icon n that button b awaits.
ResumeOf(b, n) ==
    /\ updateIcon_resume
    /\ ev'.btn = b /\ ev'.name = n

\* The state right after setup(), as far as the play/pause and Stop buttons
\* go: each awaits the load of its first icon.
InitStall ==
    /\ paused \in BOOLEAN
    /\ Constructed([b \in {"playPause", "stop"} |->
                      IF b = "stop" THEN "stop" ELSE playPauseIcon(paused)])
    /\ muted = FALSE /\ volume = 100 /\ currentTime = 0
    /\ events = NoEvents /\ overlay = NoOverlay
    /\ IdleClick /\ IdleFs /\ IdlePip /\ IdleRate

\* The fetch of stop.svg never settles: no step resolves the Stop button's load.
NextStall ==
    \/ playPause_onClick
    \/ on_playpause
    \/ HostPlays
    \/ HostPauses
    \/ \E n \in {"play", "pause"} : ResumeOf("playPause", n)

\* Every fetch of the play/pause button's icons settles and its continuation
\* runs, and the event loop runs every queued listener: a task that stays
\* runnable is run (weak fairness).  Clicks and the player's own changes of
\* state are under no obligation to happen.
SpecStall ==
    /\ InitStall /\ [][NextStall]_vars
    /\ \A n \in {"play", "pause"} : WF_vars(ResumeOf("playPause", n))
    /\ WF_vars(on_playpause)

----------------------------------------------------------------------------
(* C1 *)

\* C1: an updateIcon(n) call on a button whose previous updateIcon call was
\* given the same name n issues no asset request and changes neither
\* currentIcon nor the rendered content, whether or not the load of the
\* first call has resolved (so the two calls issue at most one request).
C1_SecondCallIsNoOp ==
    [][ (ev'.op = "updateIcon" /\ ev'.name = lastCall[ev'.btn])
          => /\ loads' = loads
             /\ currentIcon' = currentIcon
             /\ rendered' = rendered ]_vars

\* The second of two updateIcon("play") calls has run while the load of the
\* first is still in flight.
C1_Witness ==
    /\ ev.op = "updateIcon" /\ ev.name = "play" /\ ev.prev = "play"
    /\ ~ev.issued
    /\ \E l \in BagToSet(loads) : l.btn = ev.btn /\ l.name = "play"
    /\ BagCardinality(loads) = 1

----------------------------------------------------------------------------
(* C2 *)

\* C2: a click on the fullscreen button whose host request fails (it throws,
\* or the platform refuses it) leaves currentIcon as it was before the click.
C2_FailedRequestKeepsIcon ==
    /\ (ev.op = "fsClick" /\ ev.out = "throws") => currentIcon["fs"] = ev.pre
    /\ (ev.op = "fsSettled" /\ ~ev.ok) => currentIcon["fs"] = ev.pre

----------------------------------------------------------------------------
(* C3 *)

\* C3: the picture-in-picture button's currentIcon changes to "pip_exit" only
\* in the step in which an enter call resolves (the video is then the
\* element in picture-in-picture), and to "pip" only in the step in which an
\* exit call resolves; a call that is rejected leaves currentIcon unchanged.
C3_IconFollowsResolution ==
    [][ /\ currentIcon'["pip"] # currentIcon["pip"] =>
             /\ ev'.op = "pipSettled" /\ ev'.ok
             /\ \/ /\ currentIcon'["pip"] = "pip_exit" /\ ev'.kind = "enter"
                   /\ pipElement' = "video"
                   /\ [kind |-> "enter"] \in BagToSet(pipCalls)
                \/ /\ currentIcon'["pip"] = "pip" /\ ev'.kind = "exit"
                   /\ pipElement' = NULL
                   /\ [kind |-> "exit"] \in BagToSet(pipCalls)
        /\ (ev'.op = "pipSettled" /\ ~ev'.ok) => currentIcon' = currentIcon ]_vars

\* An exit call has been rejected while the icon was "pip_exit" (set by an
\* enter call that resolved), and the icon is still "pip_exit".
C3_Witness ==
    /\ ev.op = "pipSettled" /\ ev.kind = "exit" /\ ~ev.ok
    /\ ev.pre = "pip_exit"
    /\ currentIcon["pip"] = "pip_exit"

----------------------------------------------------------------------------
(* C4 *)

\* C4: a click on the PiP button while no element is in picture-in-picture
\* and the platform has no support (the capability flag is off, or the video
\* element has no request method) ends in the catch block of the handler
\* with the "not supported" error: the click starts no platform call,
\* nothing escapes the handler, and currentIcon is what it was before the click.
C4_UnsupportedIsCaught ==
    ( /\ ev.op = "pipClick" /\ ~ev.active
      /\ (~pipSupport.enabled \/ pipSupport.tech = "noMethod") )
    => /\ caught = "PiP error: " \o NotSupported
       /\ currentIcon["pip"] = ev.pre
       /\ ev.does = NotSupported
       /\ ~unhandledRejection /\ ~hostDispatchError

\* Such a click has run on a platform whose flag is on but whose video
\* element has no request method.
C4_Witness ==
    /\ ev.op = "pipClick" /\ ~ev.active
    /\ pipSupport = [enabled |-> TRUE, tech |-> "noMethod"]
    /\ caught = "PiP error: " \o NotSupported
    /\ currentIcon["pip"] = "pip"

----------------------------------------------------------------------------
(* C5 *)

\* C5: every error thrown and every rejection raised by the onClick callback
\* is caught by handleClick; none reaches the host's dispatch, none is left
\* unhandled.
C5_EveryFailureCaught ==
    /\ ~hostDispatchError
    /\ ~unhandledRejection

----------------------------------------------------------------------------
(* C6 *)

\* C6: when the load of an updateIcon(name) call fails (null or empty
\* markup), the button's content right after the call completes is plain
\* text, the label if there is one and the icon name otherwise, never empty.
C6_FallbackTextNonEmpty ==
    (ev.op = "iconDone" /\ falsy(ev.svg)) =>
        /\ rendered[ev.btn].kind = "text"
        /\ rendered[ev.btn].val # ""
        /\ Label(ev.btn) # "" => rendered[ev.btn].val = Label(ev.btn)
        /\ Label(ev.btn) = "" => rendered[ev.btn].val = ev.name

\* A load of a button without a label has failed: the text is the icon name.
C6_Witness ==
    /\ ev.op = "iconDone" /\ ev.svg = NULL
    /\ Label(ev.btn) = ""
    /\ rendered[ev.btn] = [kind |-> "text", val |-> "pause"]

----------------------------------------------------------------------------
(* C7 *)

----------------------------------------------------------------------------
(* C8 *)

\* C8 as claimed: from a rate of 1.0 the clicks on the playback-speed row
\* give 1.25, 1.5, 1.75, 2.0, and the sixth click gives 1.0.
C8_WrapOnSixthClick ==
    rateHist[1] = 1000 =>
        /\ Len(rateHist) >= 5 => SubSeq(rateHist, 2, 5) = <<1250, 1500, 1750, 2000>>
        /\ Len(rateHist) >= 7 => rateHist[7] = 1000

\* C8 as amended: from a rate of 1.0 four consecutive clicks on the row give
\* 1.25, 1.5, 1.75, 2.0 and the fifth click wraps the rate back to 1.0 (the
\* sixth gives 1.25 again: the cycle has five steps).
C8_WrapOnFifthClick ==
    rateHist[1] = 1000 =>
        \A i \in 1..Len(rateHist) : rateHist[i] = 1000 + 250 * ((i - 1) % 5)

\* Five consecutive clicks from 1.0 have been made.
C8_Witness ==
    /\ rateHist = <<1000, 1250, 1500, 1750, 2000, 1000>>
    /\ playbackRate = 1000

----------------------------------------------------------------------------
(* C9 *)

\* C9: a click on the playback-speed row at rate r sets the player's rate to
\* 1.0 if r >= 2.0 and to r + 0.25 rounded to two decimals otherwise, and
\* the value the row then displays is that same rate.
C9_StepSetsRateAndDisplay ==
    ev.op = "rateClick" =>
        /\ ev.from >= 2000 => playbackRate = 1000
        /\ ev.from < 2000 =>
             /\ playbackRate % 10 = 0
             /\ 2 * (playbackRate - (ev.from + 250)) <= 10
             /\ 2 * (playbackRate - (ev.from + 250)) > -10
        /\ DisplayedRate(menu.rateText) = playbackRate

\* A step from 1.333 has been rounded to 1.58, and the row displays 1.58x.
C9_Witness ==
    /\ ev.op = "rateClick" /\ ev.from = 1333
    /\ playbackRate = 1580
    /\ menu.rateText = <<"1", ".", "5", "8", "x">>

----------------------------------------------------------------------------
(* C10 *)

\* C10: whenever the settings panel exists, the rate it displays is the
\* player's playbackRate.
C10_DisplayIsPlayerRate ==
    menu.exists => DisplayedRate(menu.rateText) = playbackRate

----------------------------------------------------------------------------
(* C11 *)

\* C11: the volume icon depends on the muted flag and the volume only:
\* "audio_mute" when the player is muted or the volume is 0, otherwise
\* "audio_low" up to 0.33, "audio_mid" up to 0.66 and "audio_full" above,
\* both thresholds belonging to the lower band.
C11_VolumeIconTable ==
    ev.op = "volumeIconFor" =>
        /\ ev.muted = muted /\ ev.volume = volume
        /\ (ev.muted \/ ev.volume = 0) => ev.icon = "audio_mute"
        /\ (~ev.muted /\ ev.volume \in 1..33) => ev.icon = "audio_low"
        /\ (~ev.muted /\ ev.volume \in 34..66) => ev.icon = "audio_mid"
        /\ (~ev.muted /\ ev.volume \in 67..100) => ev.icon = "audio_full"

C11_Witness ==
    /\ ev.op = "volumeIconFor" /\ ~ev.muted /\ ev.volume = 66 /\ ev.icon = "audio_mid"

----------------------------------------------------------------------------
(* C12 *)

\* C12: a click on the mute/volume button inverts the muted flag, leaves the
\* volume as it was, and sets currentIcon to the volume icon of the new flag
\* and the unchanged volume; and whenever every volumechange emitted so far
\* has been handled, currentIcon is the volume icon of the player's muted
\* flag and volume.
C12_ClickTogglesMuteOnly ==
    /\ ev.op = "volumeClick" =>
          /\ muted = ~ev.muted
          /\ volume = ev.volume
          /\ currentIcon["volume"] = volumeIconFor(~ev.muted, ev.volume)
    /\ (ev.op \in {"volumeClick", "volumechange"} \/ events["volume"] = <<>>) =>
          currentIcon["volume"] = volumeIconFor(muted, volume)

C12_Witness ==
    /\ ev.op = "volumeClick" /\ ev.muted /\ ev.volume = 50 /\ volume = 50
    /\ currentIcon["volume"] = "audio_mid"

----------------------------------------------------------------------------
(* C13 *)

\* C13: after any interleaving of clicks on the play/pause button and of
\* play and pause notifications, whenever every notification emitted so far
\* has been handled the button's currentIcon is "pause" if the player is
\* playing and "play" if it is paused; the click and the listener agree.
C13_TerminalIconIsPlayerState ==
    /\ events["playPause"] = <<>> => currentIcon["playPause"] = playPauseIcon(paused)
    /\ ev.op \in {"playPauseClick", "on_playpause"} =>
          currentIcon["playPause"] = playPauseIcon(paused)

\* A click started playback and set the icon; the play notification that
\* followed found nothing left to do.
C13_Witness ==
    /\ ev.op = "on_playpause" /\ ev.name = "play" /\ ~ev.issued
    /\ events["playPause"] = <<>> /\ ~paused /\ currentIcon["playPause"] = "pause"

----------------------------------------------------------------------------
(* C14 *)

\* C14: when the player emits pause, exactly one overlay asset request is
\* issued and it is for "bigpause"; when play follows, a second one is issued
\* and it is for "bigplay".
C14_PauseAsksForBigpause ==
    ev.op = "on_overlay" =>
        /\ BagCardinality(loads) = ev.before + 1
        /\ ev.name = "pause" => ev.asked = "bigpause"
        /\ ev.name = "play" => ev.asked = "bigplay"

\* C14, amended: on a player that has its BigPlayButton, each pause
\* notification issues exactly one overlay asset request, for "bigplay", and
\* each play notification exactly one, for "bigpause"; requests may be in
\* flight together, and whichever resolves, nothing is raised and the overlay
\* shows the markup just delivered, or what it showed before if none was.
C14_PauseAsksForBigplay ==
    /\ ev.op = "on_overlay" =>
          /\ BagCardinality(loads) = ev.before + 1
          /\ \E l \in OverlayLoads : l.name = ev.asked
          /\ ev.name = "pause" => ev.asked = "bigplay"
          /\ ev.name = "play" => ev.asked = "bigpause"
    /\ ev.op = "overlayDone" =>
          overlay.content = IF falsy(ev.svg) THEN ev.was ELSE MarkupAt(PathOf(ev.name))
    /\ ~unhandledRejection /\ ~hostDispatchError /\ caught = ""

\* Pause, then play at once: the two requests are in flight together.
C14_Witness ==
    /\ ev.op = "on_overlay" /\ ev.name = "play" /\ ev.before = 1
    /\ {l.name : l \in OverlayLoads} = {"bigplay", "bigpause"}

----------------------------------------------------------------------------
(* C17 *)

\* C17: a click on Stop, when the player's methods return, leaves the player
\* paused at position zero and calls for the "bigplay" overlay icon (one asset
\* request, on a player that has its BigPlayButton); when p.pause() or
\* p.currentTime(0) throws, the handler's own catch block takes the error, and
\* in neither case does anything reach the host.
C17_StopResetsAndCatches ==
    ev.op = "stopClick" =>
        /\ ev.does = "returns" =>
              /\ paused /\ currentTime = 0
              /\ overlay.exists =>
                    /\ BagCardinality(loads) = ev.before + 1
                    /\ \E l \in OverlayLoads : l.name = "bigplay"
        /\ ev.does # "returns" => caught = "Stop error" /\ BagCardinality(loads) = ev.before
        /\ ~hostDispatchError /\ ~unhandledRejection

\* A click that went through, after one whose error was caught.
C17_Witness ==
    /\ ev.op = "stopClick" /\ ev.does = "returns" /\ ev.time > 0
    /\ overlay.exists /\ caught = "Stop error" /\ paused /\ currentTime = 0

----------------------------------------------------------------------------
(* C15 *)

\* C15: after any sequence of settings-button clicks and ensureSettingsMenu
\* calls the player holds at most one settings panel, with one click
\* listener: the first call creates it, hidden, and every later call returns
\* the existing panel as it is, creating nothing and registering nothing.
C15_AtMostOnePanel ==
    [][ /\ menu'.panels <= 1
        /\ menu'.exists => menu'.panels = 1 /\ menu'.listeners = 1
        /\ (ev'.op = "ensureMenu" /\ ~menu.exists) => menu'.exists /\ menu'.hidden
        /\ (ev'.op = "ensureMenu" /\ menu.exists) => menu' = menu
        /\ (ev'.op = "gearClick" /\ menu.exists) =>
              menu' = [menu EXCEPT !.hidden = ~menu.hidden] ]_vars

\* A call that found the panel, shown by an earlier click.
C15_Witness ==
    /\ ev.op = "ensureMenu" /\ menu.exists /\ ~menu.hidden
    /\ menu.panels = 1 /\ menu.listeners = 1

----------------------------------------------------------------------------
(* C16 *)

\* C16: each click on the settings button inverts the panel's visibility (the
\* first click creates the panel and shows it), and the button's currentIcon
\* is "gear_open" exactly while the panel is shown and "gear" exactly while it
\* is hidden or not created yet.
C16_IconIsPanelVisibility ==
    [][ /\ ev'.op = "gearClick" =>
              /\ menu'.exists
              /\ menu'.hidden = (menu.exists /\ ~menu.hidden)
        /\ currentIcon'["gear"] =
              (IF menu'.exists /\ ~menu'.hidden THEN "gear_open" ELSE "gear") ]_vars

\* The second click has hidden the panel again.
C16_Witness ==
    /\ ev.op = "gearClick" /\ menu.exists /\ menu.hidden
    /\ currentIcon["gear"] = "gear" /\ lastCall["gear"] = "gear"

----------------------------------------------------------------------------
(* C18 *)

\* C18: loads of one button are neither cancelled nor put in order.  An
\* updateIcon call leaves every load in flight where it is, and a load that
\* resolves writes its own result into the button whatever currentIcon has
\* become; so after updateIcon(A) and updateIcon(B) with B resolving first,
\* the button ends, no load in flight, showing icon A with currentIcon B
\* (the state of C18_Witness), and "no load in flight implies the icon shown
\* is currentIcon" is not an invariant.
C18_StaleLoadStillRenders ==
    [][ /\ ev'.op = "updateIcon" => loads \sqsubseteq loads'
        /\ ev'.op = "iconDone" =>
              /\ currentIcon' = currentIcon
              /\ rendered'[ev'.btn] =
                    (IF falsy(ev'.svg)
                     THEN TextContent(fallbackText(Label(ev'.btn), ev'.name))
                     ELSE [kind |-> "svg", val |-> MarkupAt(PathOf(ev'.name))]) ]_vars

\* updateIcon("play") at construction, then updateIcon("pause"); the load of
\* "pause" has resolved, then that of "play".
C18_Witness ==
    /\ loads = EmptyBag
    /\ ev.op = "iconDone" /\ ev.name = "play"
    /\ currentIcon[ev.btn] = "pause"
    /\ rendered[ev.btn] = [kind |-> "svg", val |-> MarkupAt(PathOf("play"))]

----------------------------------------------------------------------------
(* C20 *)

\* C20: once the load of the button's currentIcon n has ended in the text
\* fallback, and until updateIcon is called with a different name,
\* currentIcon is n and the button shows the fallback text.
C20_FallbackStays ==
    \A b \in DOMAIN fallback :
        fallback[b].latest =>
            /\ currentIcon[b] = fallback[b].name
            /\ rendered[b].kind = "text"

\* C20, amended: when the load of the button's currentIcon n ends in the text
\* fallback and the button awaits no other load, then until updateIcon is
\* called with a different name currentIcon is n and the button shows the
\* fallback text; and every updateIcon(n) made while currentIcon is n issues
\* no request and changes nothing (a failed load is not retried).
C20_FallbackStaysWhenAlone ==
    /\ [](\A b \in DOMAIN fallback :
            fallback[b].alone =>
                /\ currentIcon[b] = fallback[b].name
                /\ rendered[b] = TextContent(fallbackText(Label(b), fallback[b].name))
                /\ \A l \in BagToSet(loads) : l.btn # b)
    /\ [][ (/\ ev'.op = "updateIcon"
            /\ fallback[ev'.btn].name = ev'.name
            /\ currentIcon[ev'.btn] = ev'.name)
           => /\ ~ev'.issued
              /\ loads' = loads /\ currentIcon' = currentIcon /\ rendered' = rendered
              /\ fallback' = fallback ]_vars

\* updateIcon("pause") again after its load has failed: nothing is asked for.
C20_Witness ==
    /\ ev.op = "updateIcon" /\ ev.name = "pause" /\ ~ev.issued
    /\ fallback[ev.btn] = [name |-> "pause", latest |-> TRUE, alone |-> TRUE]
    /\ rendered[ev.btn].kind = "text"
    /\ loads = EmptyBag

----------------------------------------------------------------------------
(* C19 *)

\* C19: while the load of one control (the Stop button's icon) never
\* resolves, that control alone is stalled: it keeps its load in flight and
\* its initial content, and for the play/pause button no notification waits
\* for ever without its listener running, and no load stays in flight for
\* ever without its continuation running, given that the fetches of that
\* button's own icons settle.
C19_OnlyThatControlStalls ==
    /\ [](/\ \E l \in BagToSet(loads) : l.btn = "stop"
          /\ rendered["stop"] = InitialContent)
    /\ \/ []<>(events["playPause"] = <<>>)
       \/ []<><<on_playpause>>_vars
    /\ \A n \in {"play", "pause"} :
          \/ []<>(\A l \in BagToSet(loads) : ~(l.btn = "playPause" /\ l.name = n))
          \/ []<><<ResumeOf("playPause", n)>>_vars

\* With the Stop icon still loading, the play/pause button shows the icon
\* that a notification asked for.
C19_Witness ==
    /\ \E l \in BagToSet(loads) : l.btn = "stop"
    /\ ev.op = "iconDone" /\ ev.btn = "playPause" /\ ev.name = "pause"
    /\ lastCall["playPause"] = "pause" /\ ~paused
    /\ rendered["playPause"] = [kind |-> "svg", val |-> MarkupAt(PathOf("pause"))]

====
